---- MODULE Spec2Model ----
(***************************************************************************)
(* A model of src/scripts/functions/upload.py: the bulk upload of a local  *)
(* directory tree into a Nexus 3 repository (upload_repository_components, *)
(* upload_maven_component_group, upload_generic_component) and the         *)
(* single-file entry point upload_component, with the pure helpers         *)
(* parse_pom_file and parse_maven_path.                                    *)
(*                                                                         *)
(* Text is a sequence of one-character strings, so that suffix tests,      *)
(* case folding and the regular expressions of the code are computed and   *)
(* not assumed.  A path is the sequence of its segments relative to the    *)
(* scan root.  The alphabet of the names is letters, digits, '-', '.' and  *)
(* '_' (for these re.escape changes nothing that matters to a match, and   *)
(* '.' is the only character an unescaped pattern reads as a wildcard),    *)
(* and '(', with which an unescaped pattern does not compile;              *)
(* the text of a pom element may also hold blanks, which strip() removes.  *)
(***************************************************************************)
EXTENDS Naturals, Sequences, FiniteSets, TLC

VARIABLES
    entry,            \* the function of the module the run calls
    files,            \* the regular files under the scan root, as rglob lists them
    pomDoc,           \* the content of the .pom files of the tree
    server,           \* what the repositories listing endpoint answers
    pc,               \* position of the main coroutine
    repo_format,      \* result of get_repo_type
    all_files,        \* line 406, in the order rglob yields the files
    asset_files,      \* line 408
    hash_files,       \* line 407
    component_dirs,   \* line 427, the directories the loop has yet to visit
    valid_components, \* line 433
    skipped_snapshots,\* line 432: bound once the name is assigned, and its items
    tasks,            \* line 424, with the state of each created task
    summary,          \* the lines of the upload summary printed so far
    uc,               \* upload_component: its arguments and its progress
    ret,              \* what a call of parse_pom_file or parse_maven_path gave
    requests          \* the requests sent to the server so far, in their order

vars == <<entry, files, pomDoc, server, pc, repo_format, all_files, asset_files,
          hash_files, component_dirs, valid_components, skipped_snapshots,
          tasks, summary, uc, ret, requests>>

-----------------------------------------------------------------------------
(* Bounds of the model.                                                    *)

\* A tree of the full specification holds at most MaxFiles files.
MaxFiles == 2

\* The tree of the scheduling specification holds NumUnits ready upload units.
NumUnits == 6

\* A path given to parse_maven_path has at most MaxDirs directories.
MaxDirs == 4

-----------------------------------------------------------------------------
(* Text.                                                                   *)

\* Python's None, as a value that is no text of the alphabet.
None == <<"None">>

Uppers == <<"A","B","C","D","E","F","G","H","I","J","K","L","M",
            "N","O","P","Q","R","S","T","U","V","W","X","Y","Z">>
Lowers == <<"a","b","c","d","e","f","g","h","i","j","k","l","m",
            "n","o","p","q","r","s","t","u","v","w","x","y","z">>

Digits == {"0","1","2","3","4","5","6","7","8","9"}

\* The lower-case letter of every upper-case letter.
Folding == [c \in {Uppers[i] : i \in 1..26} |-> Lowers[CHOOSE i \in 1..26 : Uppers[i] = c]]

LowerChar(c) == IF c \in DOMAIN Folding THEN Folding[c] ELSE c

\* str.lower()
Lower(s) == [i \in 1..Len(s) |-> LowerChar(s[i])]

\* str.endswith(suf)
EndsWith(s, suf) ==
    /\ Len(suf) <= Len(s)
    /\ SubSeq(s, Len(s) - Len(suf) + 1, Len(s)) = suf

\* s[:len(p)] == p
StartsWith(s, p) ==
    /\ Len(p) <= Len(s)
    /\ SubSeq(s, 1, Len(p)) = p

\* s[i:] with i counted from 1
From(s, i) == SubSeq(s, i, Len(s))

\* the positions of character c in s
Positions(s, c) == {i \in 1..Len(s) : s[i] = c}

Max(S) == CHOOSE x \in S : \A y \in S : y <= x
Min(S) == CHOOSE x \in S : \A y \in S : x <= y

\* Python truthiness of an optional string: None and "" are false.
Truthy(x) == x # None /\ x # <<>>

\* str.strip() for the blank of the alphabet
RECURSIVE LStrip(_)
LStrip(s) == IF s # <<>> /\ s[1] = " " THEN LStrip(Tail(s)) ELSE s
RECURSIVE RStrip(_)
RStrip(s) == IF s # <<>> /\ s[Len(s)] = " " THEN RStrip(SubSeq(s, 1, Len(s) - 1)) ELSE s
Strip(s) == RStrip(LStrip(s))

\* ".".join(parts)
RECURSIVE Join(_)
Join(parts) ==
    IF Len(parts) = 0 THEN <<>>
    ELSE IF Len(parts) = 1 THEN parts[1]
    ELSE parts[1] \o <<".">> \o Join(Tail(parts))

\* Path.name and Path.parent of a relative path
Name(p) == p[Len(p)]
Parent(p) == SubSeq(p, 1, Len(p) - 1)

-----------------------------------------------------------------------------
(* File classification.                                                    *)

HashSuffixes ==
    { <<".","m","d","5">>, <<".","s","h","a","1">>,
      <<".","s","h","a","2","5","6">>, <<".","s","h","a","5","1","2">>,
      <<".","a","s","c">> }

PomSuffix == <<".","p","o","m">>
SnapshotSuffix == <<"-","S","N","A","P","S","H","O","T">>

\* f.name.lower().endswith(('.md5', '.sha1', '.sha256', '.sha512', '.asc'));
\* the variant leaves out lower().
IsHashNameCaseSensitive(name) == \E suf \in HashSuffixes : EndsWith(name, suf)
IsHashName(name) == \E suf \in HashSuffixes : EndsWith(Lower(name), suf)

\* p.name.lower().endswith('.pom')
IsPomName(name) == EndsWith(Lower(name), PomSuffix)

\* version.endswith('-SNAPSHOT')
IsSnapshot(version) == EndsWith(version, SnapshotSuffix)

\* [x for x in xs if keep(x)], for the three filters of the code
RECURSIVE FilterAssets(_)
FilterAssets(fs) ==
    IF fs = <<>> THEN <<>>
    ELSE IF IsHashName(Name(Head(fs))) THEN FilterAssets(Tail(fs))
    ELSE <<Head(fs)>> \o FilterAssets(Tail(fs))

\* [p for p in asset_files if p.parent == comp_dir]; the variant forgets
\* the test.
InDirAnyParent(fs, dir) == fs
RECURSIVE InDir(_, _)
InDir(fs, dir) ==
    IF fs = <<>> THEN <<>>
    ELSE IF Parent(Head(fs)) = dir THEN <<Head(fs)>> \o InDir(Tail(fs), dir)
    ELSE InDir(Tail(fs), dir)

Range(s) == {s[i] : i \in 1..Len(s)}

-----------------------------------------------------------------------------
(* Coordinate source readers.                                              *)
(*                                                                         *)
(* A metadata document is a record: wellformed (ET.parse succeeds), the    *)
(* text of the root's groupId, artifactId and version elements, hasParent, *)
(* and the text of the parent's groupId, artifactId and version.  An       *)
(* element that is                                                         *)
(* absent is None; an element without text has the text <<>>.  Every       *)
(* element of a document is in the namespace mode of its root.             *)

\* parse_pom_file: (group_id, artifact_id, version), with
\* find_text / find_parent_text: elem.text.strip() if elem.text else None
FindText(elem) ==
    IF elem = None THEN None
    ELSE IF elem = <<>> THEN None
    ELSE Strip(elem)

\* Lines 60-76: a field the document lacks is read from its parent, if the
\* parent has it.  The variant lets the parent override the document.
ParentReadOverrides(doc, own, parentElem) ==
    IF doc.hasParent /\ Truthy(FindText(parentElem))
    THEN FindText(parentElem)
    ELSE own
ParentRead(doc, own, parentElem) ==
    IF ~Truthy(own) /\ doc.hasParent /\ Truthy(FindText(parentElem))
    THEN FindText(parentElem)
    ELSE own

parse_pom_file(doc) ==
    IF ~doc.wellformed
    THEN [g |-> None, a |-> None, v |-> None]
    ELSE LET group_id == FindText(doc.groupId)
             artifact_id == FindText(doc.artifactId)
             version == FindText(doc.version)
         IN  [g |-> ParentRead(doc, group_id, doc.parentGroupId),
              a |-> artifact_id,
              v |-> ParentRead(doc, version, doc.parentVersion)]

\* re.match(rf"^{artifact_id}-", filename): the pattern is not escaped, so a
\* '.' of the artifact id matches any character.
PatternPrefix(pat, s) ==
    /\ Len(pat) + 1 <= Len(s)
    /\ \A i \in 1..Len(pat) : pat[i] = "." \/ pat[i] = s[i]
    /\ s[Len(pat) + 1] = "-"

\* re.match compiles the pattern first.  A '(' of the artifact id opens a
\* group that nothing closes, and re.error is raised.
PatternCompiles(pat) == "(" \notin {pat[i] : i \in 1..Len(pat)}

\* (\d[^-]*)(?:-(.*))?\.(.+)$ on the rest r of the filename.  [^-]* is
\* greedy: it first runs to k, the last position before the first '-'.  If a
\* '-' follows and a '.' with a character after it lies beyond, (.*) runs to
\* the last such '.'.  Otherwise the version gives characters back until it
\* ends before the last '.' it holds that has a character after it.
VersionTail(r) ==
    IF r = <<>> \/ r[1] \notin Digits
    THEN [matched |-> FALSE]
    ELSE LET dashes == {i \in 2..Len(r) : r[i] = "-"}
             k == IF dashes = {} THEN Len(r) ELSE Min(dashes) - 1
             P1 == {p \in (k + 2)..(Len(r) - 1) : r[p] = "."}
             top == IF k < Len(r) - 1 THEN k ELSE Len(r) - 1
             P2 == {p \in 2..top : r[p] = "."}
         IN  IF k < Len(r) /\ P1 # {}
             THEN [matched |-> TRUE,
                   version |-> SubSeq(r, 1, k),
                   classifier |-> SubSeq(r, k + 2, Max(P1) - 1),
                   extension |-> From(r, Max(P1) + 1)]
             ELSE IF P2 # {}
             THEN [matched |-> TRUE,
                   version |-> SubSeq(r, 1, Max(P2) - 1),
                   classifier |-> None,
                   extension |-> From(r, Max(P2) + 1)]
             ELSE [matched |-> FALSE]

\* parse_maven_path, for a file under the scan root: parts is its relative
\* path.  The result is the tuple returned, or the exception raised.
parse_maven_path(parts) ==
    IF Len(parts) < 4
    THEN [kind |-> "ValueError"]
    ELSE IF ~PatternCompiles(parts[Len(parts) - 2])
    THEN [kind |-> "re.error"]
    ELSE LET filename == parts[Len(parts)]
             version == parts[Len(parts) - 1]
             artifact_id == parts[Len(parts) - 2]
             group_id == Join(SubSeq(parts, 1, Len(parts) - 3))
             m == IF PatternPrefix(artifact_id, filename)
                  THEN VersionTail(From(filename, Len(artifact_id) + 2))
                  ELSE [matched |-> FALSE]
         IN  IF ~m.matched THEN [kind |-> "ValueError"]
             ELSE IF m.version # version THEN [kind |-> "ValueError"]
             ELSE [kind |-> "ok", g |-> group_id, a |-> artifact_id,
                   v |-> version, extension |-> m.extension]

\* The per-member extension and classifier of upload_maven_component_group
\* (lines 539-553) and of upload_component (lines 212-233):
\* ^{re.escape(artifact_id)}-{re.escape(version)}(?:-(.*))?\.(.*)$, and the
\* text after the last '.' when the filename does not match.
DeriveAsset(artifact_id, version, filename) ==
    LET prefix == artifact_id \o <<"-">> \o version
        r == From(filename, Len(prefix) + 1)
        dots == {p \in 2..Len(r) : r[p] = "."}
        all == Positions(filename, ".")
    IN  IF StartsWith(filename, prefix) /\ r # <<>> /\ r[1] = "-" /\ dots # {}
        THEN [extension |-> From(r, Max(dots) + 1),
              classifier |-> SubSeq(r, 2, Max(dots) - 1)]
        ELSE IF StartsWith(filename, prefix) /\ r # <<>> /\ r[1] = "."
        THEN [extension |-> From(r, 2), classifier |-> <<>>]
        ELSE IF all # {}
        THEN [extension |-> From(filename, Max(all) + 1), classifier |-> <<>>]
        ELSE [extension |-> <<>>, classifier |-> <<>>]

\* Path.suffix
Suffix(name) ==
    LET all == Positions(name, ".")
    IN  IF all # {} /\ 1 < Max(all) /\ Max(all) < Len(name)
        THEN From(name, Max(all))
        ELSE <<>>

-----------------------------------------------------------------------------
(* Coordinate resolution.                                                  *)

\* all([group_id, artifact_id, version]); the variant forgets the group.
AllGivenButGroup(g, a, v) == Truthy(a) /\ Truthy(v)
AllGiven(g, a, v) == Truthy(g) /\ Truthy(a) /\ Truthy(v)

\* group_id = group_id or g; the variant is g or group_id.
PathFirst(meta, path) == IF Truthy(path) THEN path ELSE meta
OrElse(meta, path) == IF Truthy(meta) THEN meta ELSE path

\* next((p for p in assets_in_dir if p.name.lower().endswith('.pom')), None)
HasPom(assets) == \E i \in 1..Len(assets) : IsPomName(Name(assets[i]))

\* The two passes of the resolution (lines 441-459, and 175-205 of
\* upload_component): pom is what the metadata pass gave, parts the path of
\* the file the path pass reads.  The loop of lines 435-467 catches the
\* ValueError of the path pass and no other exception.
ResolveCoordinate(pom, parts) ==
    LET path == parse_maven_path(parts)
        fallback == ~AllGiven(pom.g, pom.a, pom.v)
        g == IF fallback THEN OrElse(pom.g, path.g) ELSE pom.g
        a == IF fallback THEN OrElse(pom.a, path.a) ELSE pom.a
        v == IF fallback THEN OrElse(pom.v, path.v) ELSE pom.v
    IN  IF fallback /\ path.kind = "ValueError"
        THEN [outcome |-> "error", g |-> None, a |-> None, v |-> None]
        ELSE IF fallback /\ path.kind = "re.error"
        THEN [outcome |-> "re.error", g |-> None, a |-> None, v |-> None]
        ELSE IF ~AllGiven(g, a, v)
        THEN [outcome |-> "incomplete", g |-> g, a |-> a, v |-> v]
        ELSE [outcome |-> "resolved", g |-> g, a |-> a, v |-> v]

NoPom == [g |-> None, a |-> None, v |-> None]

\* Lines 441-467, one iteration of the loop over component_dirs: the outcome
\* for the directory whose assets are assets_in_dir, with the coordinate that
\* was resolved.
ResolveDir(assets_in_dir, doc) ==
    LET pom == IF HasPom(assets_in_dir) THEN parse_pom_file(doc) ELSE NoPom
        r == ResolveCoordinate(pom, assets_in_dir[1])
    IN  IF r.outcome = "resolved"
        THEN [r EXCEPT !.outcome = IF IsSnapshot(r.v) THEN "snapshot" ELSE "valid"]
        ELSE r

\* Lines 180-191 of upload_component: the metadata pass for one file.  With
\* a '.' in its name, a file that is no .pom reads any *.pom of its directory
\* (find_pom_file_for_artifact).
ComponentPom(source_filename, fs, doc) ==
    LET name == Name(source_filename)
        globbed == {i \in 1..Len(fs) : /\ Parent(fs[i]) = Parent(source_filename)
                                        /\ EndsWith(Name(fs[i]), PomSuffix)}
    IN  IF Lower(Suffix(name)) = PomSuffix THEN parse_pom_file(doc)
        ELSE IF Positions(name, ".") # {} /\ globbed # {} THEN parse_pom_file(doc)
        ELSE NoPom

-----------------------------------------------------------------------------
(* The multipart request.  A FormData is the sequence of its fields; a     *)
(* field is a record with its key, the member index i (0 for a field of    *)
(* the component) and its text, or the file whose handle it carries.       *)

TextField(key, i, text) == [key |-> key, i |-> i, text |-> text, file |-> <<>>]
FileField(key, i, path) == [key |-> key, i |-> i, text |-> <<>>, file |-> path]

\* Lines 538-569 for member i of filtered_assets.  A pair (extension,
\* classifier) that was seen before is reported and the member is added to
\* the request all the same.
\* The variant sends the classifier field even when the classifier is empty.
MemberFieldsClassifierAlways(artifact_id, version, asset_path, i) ==
    LET d == DeriveAsset(artifact_id, version, Name(asset_path))
    IN  <<TextField("extension", i, d.extension),
          TextField("classifier", i, d.classifier),
          FileField("asset", i, asset_path)>>
MemberFields(artifact_id, version, asset_path, i) ==
    LET d == DeriveAsset(artifact_id, version, Name(asset_path))
    IN  <<TextField("extension", i, d.extension)>>
        \o (IF d.classifier # <<>>
            THEN <<TextField("classifier", i, d.classifier)>> ELSE <<>>)
        \o <<FileField("asset", i, asset_path)>>

RECURSIVE MembersFrom(_, _, _, _)
MembersFrom(artifact_id, version, filtered, i) ==
    IF i > Len(filtered) THEN <<>>
    ELSE MemberFields(artifact_id, version, filtered[i], i)
         \o MembersFrom(artifact_id, version, filtered, i + 1)

\* Lines 530-569: the FormData of a component group.
GroupForm(group_id, artifact_id, version, filtered) ==
    <<TextField("groupId", 0, group_id),
      TextField("artifactId", 0, artifact_id),
      TextField("version", 0, version)>>
    \o MembersFrom(artifact_id, version, filtered, 1)

\* Line 591: the FormData of a generic upload.
GenericForm(asset_path) == <<FileField("asset", 0, asset_path)>>

\* Lines 238-252: the FormData upload_component builds for a Maven file.
ComponentForm(group_id, artifact_id, version, source_filename) ==
    <<TextField("groupId", 0, group_id),
      TextField("artifactId", 0, artifact_id),
      TextField("version", 0, version)>>
    \o MemberFields(artifact_id, version, source_filename, 1)

\* The files a FormData carries, and the text of one of its fields.
FormFiles(form) == {form[k].file : k \in {j \in 1..Len(form) : form[j].key = "asset"}}
FormText(form, key) ==
    form[CHOOSE k \in 1..Len(form) : form[k].key = key /\ form[k].i = 0].text

-----------------------------------------------------------------------------
(* The remote service.                                                     *)

maven2 == <<"m","a","v","e","n","2">>
raw == <<"r","a","w">>

\* The listings the repositories endpoint may answer with; the run asks for
\* the repository "releases".
Servers ==
    { [status |-> 200, repos |-> <<[name |-> "releases", format |-> maven2]>>],
      [status |-> 200, repos |-> <<[name |-> "snapshots", format |-> maven2],
                                   [name |-> "releases", format |-> raw]>>],
      [status |-> 200, repos |-> <<[name |-> "snapshots", format |-> raw]>>],
      [status |-> 200, repos |-> <<[name |-> "releases", format |-> None]>>],
      [status |-> 500, repos |-> <<>>] }

\* get_repo_type
get_repo_type(reply, repo_name) ==
    LET hits == {k \in 1..Len(reply.repos) : reply.repos[k].name = repo_name}
    IN  IF reply.status = 200 /\ hits # {}
        THEN reply.repos[Min(hits)].format
        ELSE None

\* repo_format.lower() == "maven2"
IsMaven(fmt) == Lower(fmt) = maven2

\* What a POST of a task ends with: a response with its status and its body,
\* aiohttp.ClientError, or an exception of another class, such as
\* asyncio.TimeoutError.  upload_maven_component_group and
\* upload_generic_component decide by the status alone.
TaskReplies ==
    { [kind |-> "response", status |-> 204, body |-> ""],
      [kind |-> "response", status |-> 200, body |-> ""],
      [kind |-> "response", status |-> 400, body |-> "Bad request"],
      [kind |-> "ClientError", status |-> 0, body |-> ""],
      [kind |-> "Exception", status |-> 0, body |-> ""] }

\* What the POST of upload_component ends with: its suggestions depend on
\* the body and on the status.
Replies ==
    TaskReplies \cup
    { [kind |-> "response", status |-> 400, body |-> "xx Version policy mismatch yy"],
      [kind |-> "response", status |-> 500, body |-> "Version policy mismatch"],
      [kind |-> "response", status |-> 400,
       body |-> "Repository does not allow updating assets: releases"],
      [kind |-> "response", status |-> 400, body |-> "This path is already a hash"],
      [kind |-> "response", status |-> 403, body |-> ""],
      [kind |-> "response", status |-> 404, body |-> "Not found"],
      [kind |-> "response", status |-> 500, body |-> "boom"] }

NoReply == [kind |-> "none", status |-> 0, body |-> ""]

\* How response.text() ends: with the body, with aiohttp.ClientError, or
\* with an exception of another class.
TextEnds == {"text", "ClientError", "Exception"}

\* Lines 571-582, 592-602 and 268-302: what the coroutine returns or raises
\* for the end of its POST.  The variant takes every 2xx status for a success.
OutcomeAny2xx(reply) ==
    IF reply.kind = "response" /\ reply.status \in {200, 204} THEN "True"
    ELSE IF reply.kind = "Exception" THEN "Exception"
    ELSE "False"
Outcome(reply) ==
    IF reply.kind = "response" /\ reply.status = 204 THEN "True"
    ELSE IF reply.kind = "Exception" THEN "Exception"
    ELSE "False"

\* sub in s
Contains(sub, s) ==
    \E i \in 0..(Len(s) - Len(sub)) : SubSeq(s, i + 1, i + Len(sub)) = sub

\* Lines 277-298 of upload_component: the suggestion printed for a response
\* that is not 204, chosen by the body first and by the status then; none
\* when the body cannot be read (line 297).
Hint(reply, textEnd) ==
    IF textEnd # "text" THEN "unreadable"
    ELSE IF Contains("Version policy mismatch", reply.body) THEN "policy"
    ELSE IF Contains("Repository does not allow updating assets", reply.body)
    THEN "read-only"
    ELSE IF Contains("This path is already a hash", reply.body) THEN "hash"
    ELSE IF reply.status = 400 THEN "bad request"
    ELSE IF reply.status = 403 THEN "permission denied"
    ELSE IF reply.status = 500 THEN "server error"
    ELSE "none"

-----------------------------------------------------------------------------
(* The trees and the metadata documents a run is given.                    *)

org == <<"o","r","g">>
app == <<"a","p","p">>
v10 == <<"1",".","0">>
v10snap == v10 \o SnapshotSuffix
jar == <<".","j","a","r">>

dirRelease == <<org, app, v10>>
dirSnapshot == <<org, app, v10snap>>

fileJar == dirRelease \o <<app \o <<"-">> \o v10 \o jar>>
fileJarSha1 == dirRelease \o <<app \o <<"-">> \o v10 \o jar \o <<".","s","h","a","1">> >>
filePom == dirRelease \o <<app \o <<"-">> \o v10 \o PomSuffix>>
fileLibJar == dirRelease \o << <<"l","i","b">> \o jar>>
fileSources == dirRelease \o <<app \o <<"-">> \o v10 \o <<"-","s","o","u","r","c","e","s">> \o jar>>
fileMd5Upper == dirRelease \o << <<"A","P","P","-","1",".","0",".","J","A","R",".","M","D","5">> >>
fileSnapJar == dirSnapshot \o <<app \o <<"-">> \o v10snap \o jar>>
fileSnapPom == dirSnapshot \o <<app \o <<"-">> \o v10snap \o PomSuffix>>
fileReadme == << <<"r","e","a","d","m","e",".","t","x","t">> >>
fileParen == <<org, <<"a","(">>, v10, <<"a","(","-">> \o v10 \o jar>>
fileTarGz == dirRelease \o <<app \o <<"-">> \o v10 \o <<".","t","a","r",".","g","z">> >>

FileUniverse ==
    { fileJar, fileJarSha1, filePom, fileLibJar, fileSources, fileMd5Upper,
      fileSnapJar, fileSnapPom, fileReadme, fileParen }

Trees == {T \in SUBSET FileUniverse : 1 <= Cardinality(T) /\ Cardinality(T) <= MaxFiles}

orgx == <<"o","r","g",".","x">>
par == <<"p","a","r">>

\* A complete release descriptor, a complete snapshot descriptor, a
\* descriptor that declares its artifactId alone and inherits the groupId of
\* its parent, a descriptor without a groupId, and a document that is not
\* well-formed.
docRelease ==
    [wellformed |-> TRUE, groupId |-> orgx, artifactId |-> app, version |-> v10,
     hasParent |-> FALSE, parentGroupId |-> None, parentArtifactId |-> None,
     parentVersion |-> None]
docSnapshot ==
    [wellformed |-> TRUE, groupId |-> orgx, artifactId |-> app, version |-> v10snap,
     hasParent |-> FALSE, parentGroupId |-> None, parentArtifactId |-> None,
     parentVersion |-> None]
docChild ==
    [wellformed |-> TRUE, groupId |-> None, artifactId |-> <<" ">> \o app,
     version |-> None, hasParent |-> TRUE, parentGroupId |-> par,
     parentArtifactId |-> par, parentVersion |-> None]
docNoGroup ==
    [wellformed |-> TRUE, groupId |-> None, artifactId |-> app, version |-> v10,
     hasParent |-> FALSE, parentGroupId |-> None, parentArtifactId |-> None,
     parentVersion |-> None]
docMalformed ==
    [wellformed |-> FALSE, groupId |-> None, artifactId |-> None, version |-> None,
     hasParent |-> FALSE, parentGroupId |-> None, parentArtifactId |-> None,
     parentVersion |-> None]

PomDocs == {docRelease, docSnapshot, docChild, docNoGroup, docMalformed}

\* The orders in which rglob may yield the files of a tree.
Orders(T) ==
    {s \in [1..Cardinality(T) -> T] : \A i, j \in 1..Cardinality(T) : i # j => s[i] # s[j]}

Listings == UNION {Orders(T) : T \in Trees}

\* The documents given to parse_pom_file: every element is absent, empty,
\* blank, a text, or a text with blanks around it.
ElemTexts(t) == {None, <<>>, <<" ">>, t, <<" ">> \o t \o <<" ">>}

DocInputs ==
    {docMalformed} \cup
    {d \in [wellformed : {TRUE}, groupId : ElemTexts(orgx), artifactId : ElemTexts(app),
            version : ElemTexts(v10), hasParent : BOOLEAN,
            parentGroupId : ElemTexts(par), parentArtifactId : {None, par},
            parentVersion : ElemTexts(v10snap)] :
        ~d.hasParent => /\ d.parentGroupId = None
                        /\ d.parentArtifactId = None
                        /\ d.parentVersion = None}

\* The paths given to parse_maven_path: up to MaxDirs directories and a file.
DirNames == {org, app, v10, v10snap}
FileNames ==
    { app \o <<"-">> \o v10 \o jar,
      app \o <<"-">> \o v10 \o <<"-","s","o","u","r","c","e","s">> \o jar,
      app \o <<"-">> \o v10 \o <<".","t","a","r",".","g","z">>,
      app \o <<"-">> \o v10snap \o jar,
      app \o <<"-">> \o v10,
      app \o <<"-","2",".","0">> \o jar,
      <<"l","i","b">> \o jar,
      org \o <<"-">> \o v10 \o jar }

DirInputs == UNION {[1..n -> DirNames] : n \in 0..MaxDirs}
PathInputs == {d \o <<name>> : d \in DirInputs, name \in FileNames}

\* The trees of a release directory whose .pom file cannot be parsed.
FallbackUniverse == {filePom, fileJar, fileSources, fileTarGz, fileLibJar, fileJarSha1}
FallbackListings ==
    UNION {Orders(T) : T \in {T \in SUBSET FallbackUniverse :
                                 1 <= Cardinality(T) /\ Cardinality(T) <= MaxFiles}}

HasPomFile(fs) == \E i \in 1..Len(fs) : IsPomName(Name(fs[i]))

\* The tree of the scheduling specification: NumUnits release components of
\* one file each, org/u<i>/1.0/u<i>-1.0.jar, listed in the order of i.
DigitChar == <<"1","2","3","4","5","6","7","8","9">>
UnitFile(i) ==
    <<org, <<"u", DigitChar[i]>>, v10, <<"u", DigitChar[i], "-">> \o v10 \o jar>>
UnitListing == [i \in 1..NumUnits |-> UnitFile(i)]

-----------------------------------------------------------------------------
(* The state before a run.                                                 *)

NoReturn == [kind |-> "none"]

NoUc == [file |-> <<>>, format |-> <<>>, form |-> <<>>, open |-> FALSE,
         reply |-> NoReply, hint |-> "none", result |-> "pending"]

Blank ==
    /\ pc = "start"
    /\ repo_format = None
    /\ all_files = <<>>
    /\ asset_files = <<>>
    /\ hash_files = {}
    /\ component_dirs = {}
    /\ valid_components = <<>>
    /\ skipped_snapshots = [bound |-> FALSE, items |-> <<>>]
    /\ tasks = <<>>
    /\ summary = <<>>
    /\ uc = NoUc
    /\ ret = NoReturn
    /\ requests = <<>>

Init ==
    /\ entry \in {"upload_repository_components", "upload_component"}
    /\ files \in Listings
    /\ pomDoc \in (IF HasPomFile(files) THEN PomDocs ELSE {docMalformed})
    /\ server \in (IF entry = "upload_repository_components" THEN Servers
                   ELSE {CHOOSE s \in Servers : s.status = 500})
    /\ Blank

\* A call of one of the two readers, with its argument.
InitReaders ==
    /\ entry \in {"parse_pom_file", "parse_maven_path"}
    /\ IF entry = "parse_pom_file"
       THEN files = <<filePom>> /\ pomDoc \in DocInputs
       ELSE files \in {<<p>> : p \in PathInputs} /\ pomDoc = docMalformed
    /\ server = CHOOSE s \in Servers : s.status = 500
    /\ Blank

\* A run for a Maven repository over a tree whose metadata is malformed.
InitFallback ==
    /\ entry = "upload_repository_components"
    /\ files \in FallbackListings
    /\ pomDoc = docMalformed
    /\ server \in {s \in Servers : IsMaven(get_repo_type(s, "releases"))}
    /\ Blank

InitSched ==
    /\ entry = "upload_repository_components"
    /\ files = UnitListing
    /\ pomDoc = docMalformed
    /\ server \in {s \in Servers : ~IsMaven(get_repo_type(s, "releases"))}
    /\ Blank

-----------------------------------------------------------------------------
(* upload_repository_components.                                           *)

env == <<entry, files, pomDoc, server>>

\* Lines 353-368: the scan root must exist and be a directory.  The variant
\* asks the server before it asks the user.
ValidateThenLookup ==
    /\ entry = "upload_repository_components"
    /\ pc = "start"
    /\ \E root \in {"dir", "file", "missing"} :
          pc' = IF root = "dir" THEN "lookup" ELSE "Exit1"
    /\ UNCHANGED <<env, ret, requests, repo_format, all_files, asset_files, hash_files,
                   component_dirs, valid_components, skipped_snapshots, tasks,
                   summary, uc>>
Validate ==
    /\ entry = "upload_repository_components"
    /\ pc = "start"
    /\ \E root \in {"dir", "file", "missing"} :
          pc' = IF root = "dir" THEN "confirm" ELSE "Exit1"
    /\ UNCHANGED <<env, ret, requests, repo_format, all_files, asset_files, hash_files,
                   component_dirs, valid_components, skipped_snapshots, tasks,
                   summary, uc>>

\* Lines 393-396: typer.confirm.
Confirm ==
    /\ pc = "confirm"
    /\ \E confirm \in BOOLEAN :
          pc' = IF confirm THEN "lookup" ELSE "Exit0"
    /\ UNCHANGED <<env, ret, requests, repo_format, all_files, asset_files, hash_files,
                   component_dirs, valid_components, skipped_snapshots, tasks,
                   summary, uc>>

\* Lines 403-404: if not repo_format: raise RuntimeError.  The variant goes
\* on with a format that is unknown.
AfterLookupGoesOn(fmt) == "scan"
AfterLookup(fmt) == IF Truthy(fmt) THEN "scan" ELSE "RuntimeError"

\* Lines 401-404: the format lookup.
Lookup ==
    /\ pc = "lookup"
    /\ repo_format' = get_repo_type(server, "releases")
    /\ pc' = AfterLookup(repo_format')
    /\ requests' = Append(requests, "GET")
    /\ UNCHANGED <<env, ret, all_files, asset_files, hash_files, component_dirs,
                   valid_components, skipped_snapshots, tasks, summary, uc>>

\* Lines 406-433 and 494: the tree walk and the file analysis.
Scan ==
    /\ pc = "scan"
    /\ all_files' = files
    /\ hash_files' = {f \in Range(files) : IsHashName(Name(f))}
    /\ asset_files' = FilterAssets(files)
    /\ IF IsMaven(repo_format)
       THEN /\ component_dirs' = {Parent(p) : p \in Range(asset_files')}
            /\ skipped_snapshots' = [bound |-> TRUE, items |-> <<>>]
            /\ pc' = "resolve"
       ELSE /\ UNCHANGED <<component_dirs, skipped_snapshots>>
            /\ pc' = "create"
    /\ UNCHANGED <<env, ret, requests, repo_format, valid_components, tasks, summary, uc>>

\* Lines 435-467: one iteration of the loop, for any directory not yet visited.
ResolveOne ==
    /\ pc = "resolve"
    /\ \E comp_dir \in component_dirs :
          LET assets_in_dir == InDir(asset_files, comp_dir)
              r == ResolveDir(assets_in_dir, pomDoc)
          IN  /\ component_dirs' = component_dirs \ {comp_dir}
              /\ valid_components' =
                    IF r.outcome = "valid"
                    THEN Append(valid_components,
                                [g |-> r.g, a |-> r.a, v |-> r.v,
                                 assets |-> assets_in_dir])
                    ELSE valid_components
              /\ skipped_snapshots' =
                    IF r.outcome = "snapshot"
                    THEN [skipped_snapshots EXCEPT
                            !.items = Append(@, [g |-> r.g, a |-> r.a, v |-> r.v])]
                    ELSE skipped_snapshots
              /\ pc' = IF r.outcome = "re.error" THEN "re.error" ELSE pc
    /\ UNCHANGED <<env, ret, requests, repo_format, all_files, asset_files, hash_files,
                   tasks, summary, uc>>

\* Lines 482-486: the end of the loop.
ResolveEnd ==
    /\ pc = "resolve"
    /\ component_dirs = {}
    /\ pc' = IF valid_components = <<>> THEN "no_valid" ELSE "create"
    /\ UNCHANGED <<env, ret, requests, repo_format, all_files, asset_files, hash_files,
                   component_dirs, valid_components, skipped_snapshots, tasks,
                   summary, uc>>

NewTask(kind, g, a, v, assets) ==
    [kind |-> kind, g |-> g, a |-> a, v |-> v, assets |-> assets,
     st |-> "created", form |-> <<>>, handles |-> {}, reply |-> NoReply,
     result |-> "pending"]

\* Lines 495-498: one task for every asset file.  The variant leaves out the
\* files of a directory whose name ends in -SNAPSHOT.
RECURSIVE GenericUnitsNoSnapshot(_)
GenericUnitsNoSnapshot(assets) ==
    IF assets = <<>> THEN <<>>
    ELSE IF Len(Head(assets)) >= 2 /\ IsSnapshot(Head(assets)[Len(Head(assets)) - 1])
    THEN GenericUnitsNoSnapshot(Tail(assets))
    ELSE <<NewTask("generic", None, None, None, <<Head(assets)>>)>>
         \o GenericUnitsNoSnapshot(Tail(assets))
GenericUnits(assets) ==
    [i \in 1..Len(assets) |-> NewTask("generic", None, None, None, <<assets[i]>>)]

\* Lines 488-500: asyncio.create_task for every unit.
CreateTasks ==
    /\ pc = "create"
    /\ tasks' =
          IF IsMaven(repo_format)
          THEN [i \in 1..Len(valid_components) |->
                  NewTask("maven", valid_components[i].g, valid_components[i].a,
                          valid_components[i].v, valid_components[i].assets)]
          ELSE GenericUnits(asset_files)
    /\ pc' = "gather"
    /\ UNCHANGED <<env, ret, requests, repo_format, all_files, asset_files, hash_files,
                   component_dirs, valid_components, skipped_snapshots, summary, uc>>

\* The event loop runs the created tasks in the order of their creation, and
\* only while the main coroutine waits in gather.  A task runs to its POST:
\* upload_maven_component_group to line 572, upload_generic_component to 593.
\* With failAt = k > 0 the k-th open() of the task raises OSError, which
\* ends the task: the loop of lines 538-569 is inside no try statement, and
\* the files it has opened before stay open.  handles is the set of the
\* files the task holds open.
StartedTask(t, failAt) ==
    LET filtered == FilterAssets(t.assets)
        form == IF t.kind = "maven"
                THEN GroupForm(t.g, t.a, t.v, filtered)
                ELSE GenericForm(t.assets[1])
    IN  IF t.kind = "maven" /\ filtered = <<>>
        THEN [t EXCEPT !.st = "done", !.result = "True"]
        ELSE IF failAt > 0
        THEN [t EXCEPT !.st = "done", !.result = "Exception",
                       !.handles = IF t.kind = "maven"
                                   THEN {filtered[k] : k \in 1..(failAt - 1)}
                                   ELSE {}]
        ELSE [t EXCEPT !.st = "posting", !.form = form,
                       !.handles = FormFiles(form)]

CanStart(i) ==
    /\ pc = "gather"
    /\ tasks[i].st = "created"
    /\ \A j \in 1..(i - 1) : tasks[j].st # "created"

TaskStart(i) ==
    /\ CanStart(i)
    /\ \E failAt \in 0..Len(tasks[i].assets) :
          tasks' = [tasks EXCEPT ![i] = StartedTask(tasks[i], failAt)]
    /\ requests' = IF tasks'[i].st = "posting" THEN Append(requests, "POST") ELSE requests
    /\ UNCHANGED <<env, ret, pc, repo_format, all_files, asset_files, hash_files,
                   component_dirs, valid_components, skipped_snapshots, summary, uc>>

\* Line 577: for a response that is not 204, upload_maven_component_group
\* awaits response.text() before it returns, and other tasks run meanwhile.
\* upload_generic_component reads no body.
Suspends(t, reply) ==
    t.kind = "maven" /\ reply.kind = "response" /\ reply.status # 204

\* Lines 572-582 and 593-602: the POST ends; the coroutine returns, raises,
\* or goes on to read the body.
\* The variant fails fast: a failed POST cancels the tasks that are not done.
CompletedCancelsSiblings(ts, i, reply) ==
    [j \in 1..Len(ts) |->
        IF j = i
        THEN IF Suspends(ts[j], reply)
             THEN [ts[j] EXCEPT !.st = "reading", !.reply = reply]
             ELSE [ts[j] EXCEPT !.st = "done", !.reply = reply,
                                !.result = Outcome(reply)]
        ELSE IF Outcome(reply) # "True" /\ ts[j].st # "done"
        THEN [ts[j] EXCEPT !.st = "done", !.result = "Exception"]
        ELSE ts[j]]
Completed(ts, i, reply) ==
    [ts EXCEPT ![i] = IF Suspends(@, reply)
                      THEN [@ EXCEPT !.st = "reading", !.reply = reply]
                      ELSE [@ EXCEPT !.st = "done", !.reply = reply,
                                     !.result = Outcome(reply)]]

\* A task that awaits its response runs again when the response is there.
CanComplete(i) ==
    /\ pc = "gather"
    /\ tasks[i].st = "posting"

\* The end of a submission.  upload_generic_component leaves its with
\* statement (line 590), which closes the file.  upload_maven_component_group
\* runs its finally block (lines 583-586), which closes the value of every
\* field that is an IOBasePayload: payloadFields says whether the fields
\* FormData keeps are such payloads, which the library decides.
Released(t, payloadFields) ==
    IF t.st = "done" /\ (t.kind = "generic" \/ payloadFields)
    THEN [t EXCEPT !.handles = {}]
    ELSE t

FieldKinds(t) == IF t.kind = "generic" THEN {TRUE} ELSE BOOLEAN

\* The response, or the exception, of the POST of task i arrives.
TaskComplete(i) ==
    /\ CanComplete(i)
    /\ \E reply \in TaskReplies, payloadFields \in FieldKinds(tasks[i]) :
          tasks' = [Completed(tasks, i, reply) EXCEPT ![i] = Released(@, payloadFields)]
    /\ UNCHANGED <<env, ret, requests, pc, repo_format, all_files, asset_files, hash_files,
                   component_dirs, valid_components, skipped_snapshots, summary, uc>>

\* Lines 577-586: response.text() of task i ends.  The body read, the
\* coroutine returns False; aiohttp.ClientError is caught at line 580, an
\* exception of another class leaves the coroutine.
TextRead(t, textEnd) ==
    [t EXCEPT !.st = "done",
              !.result = IF textEnd = "Exception" THEN "Exception"
                         ELSE Outcome(t.reply)]

CanRead(i) ==
    /\ pc = "gather"
    /\ tasks[i].st = "reading"

TaskRead(i) ==
    /\ CanRead(i)
    /\ \E textEnd \in TextEnds, payloadFields \in FieldKinds(tasks[i]) :
          tasks' = [tasks EXCEPT ![i] = Released(TextRead(@, textEnd), payloadFields)]
    /\ UNCHANGED <<env, ret, requests, pc, repo_format, all_files, asset_files, hash_files,
                   component_dirs, valid_components, skipped_snapshots, summary, uc>>

\* asyncio.gather(*tasks, return_exceptions=True) returns when every task is
\* done; the variant returns with the first task that is.
GatherFirstCompleted(ts) == ts = <<>> \/ \E i \in 1..Len(ts) : ts[i].st = "done"
GatherReturns(ts) == \A i \in 1..Len(ts) : ts[i].st = "done"

\* Line 504: r is False or isinstance(r, Exception); the variant forgets the
\* exceptions gather returns.
ErrorResultsFalseOnly == {"False"}
ErrorResults == {"False", "Exception"}

Count(ts, results) == Cardinality({i \in 1..Len(ts) : ts[i].result \in results})

\* Lines 501-509: the results are counted and the summary is printed.  Line
\* 509 reads skipped_snapshots, which only the Maven branch assigns.
Report ==
    /\ pc = "gather"
    /\ GatherReturns(tasks)
    /\ LET success_count == Count(tasks, {"True"})
           error_count == Count(tasks, ErrorResults)
           line507 == [line |-> 507, first |-> success_count, second |-> error_count]
           line508 == [line |-> 508, first |-> Len(asset_files), second |-> Len(tasks)]
           line509 == [line |-> 509, first |-> Cardinality(hash_files),
                       second |-> Len(skipped_snapshots.items)]
       IN  IF skipped_snapshots.bound
           THEN summary' = <<line507, line508, line509>> /\ pc' = "done"
           ELSE summary' = <<line507, line508>> /\ pc' = "NameError"
    /\ UNCHANGED <<env, ret, requests, repo_format, all_files, asset_files, hash_files,
                   component_dirs, valid_components, skipped_snapshots, tasks, uc>>

-----------------------------------------------------------------------------
(* upload_component, called for one file of the tree.                      *)

\* Lines 163-266: to the POST, or to the return before it.
UcCalled(source_filename, fmt, openFails) ==
    LET r == ResolveCoordinate(ComponentPom(source_filename, files, pomDoc),
                               source_filename)
        u == [NoUc EXCEPT !.file = source_filename, !.format = fmt]
    IN  IF IsHashName(Name(source_filename)) THEN [u EXCEPT !.result = "None"]
        ELSE IF openFails THEN [u EXCEPT !.result = "Exception"]
        ELSE IF ~IsMaven(fmt)
        THEN [u EXCEPT !.open = TRUE, !.form = GenericForm(source_filename)]
        ELSE IF r.outcome # "resolved" THEN [u EXCEPT !.result = "False"]
        ELSE [u EXCEPT !.open = TRUE,
                       !.form = ComponentForm(r.g, r.a, r.v, source_filename)]

UcCall ==
    /\ entry = "upload_component"
    /\ pc = "start"
    /\ \E i \in 1..Len(files), fmt \in {maven2, raw}, openFails \in BOOLEAN :
          uc' = UcCalled(files[i], fmt, openFails)
    /\ pc' = IF uc'.open THEN "post" ELSE "returned"
    /\ requests' = IF uc'.open THEN <<"POST">> ELSE <<>>
    /\ UNCHANGED <<env, ret, repo_format, all_files, asset_files, hash_files,
                   component_dirs, valid_components, skipped_snapshots, tasks,
                   summary>>

\* Lines 268-276 and 299-302: the POST ends.  For a response that is not 204
\* the coroutine goes on to read the body (line 279); else it returns or
\* raises, and the with statement closes the file.
UcComplete ==
    /\ pc = "post"
    /\ \E reply \in Replies :
          IF reply.kind = "response" /\ reply.status # 204
          THEN uc' = [uc EXCEPT !.reply = reply] /\ pc' = "text"
          ELSE /\ uc' = [uc EXCEPT !.open = FALSE, !.reply = reply,
                                   !.result = Outcome(reply)]
               /\ pc' = "returned"
    /\ UNCHANGED <<env, ret, requests, repo_format, all_files, asset_files, hash_files,
                   component_dirs, valid_components, skipped_snapshots, tasks,
                   summary>>

\* Lines 277-298: response.text() ends, the suggestion is printed and the
\* coroutine returns False; an exception of the read is caught at line 296.
UcRead ==
    /\ pc = "text"
    /\ \E textEnd \in TextEnds :
          uc' = [uc EXCEPT !.open = FALSE, !.hint = Hint(uc.reply, textEnd),
                           !.result = Outcome(uc.reply)]
    /\ pc' = "returned"
    /\ UNCHANGED <<env, ret, requests, repo_format, all_files, asset_files, hash_files,
                   component_dirs, valid_components, skipped_snapshots, tasks,
                   summary>>

-----------------------------------------------------------------------------
(* The two readers, called on their own.                                   *)

CallParsePom ==
    /\ entry = "parse_pom_file"
    /\ pc = "start"
    /\ ret' = [kind |-> "ok"] @@ parse_pom_file(pomDoc)
    /\ pc' = "returned"
    /\ UNCHANGED <<env, requests, repo_format, all_files, asset_files, hash_files,
                   component_dirs, valid_components, skipped_snapshots, tasks,
                   summary, uc>>

CallParseMavenPath ==
    /\ entry = "parse_maven_path"
    /\ pc = "start"
    /\ ret' = parse_maven_path(files[1])
    /\ pc' = "returned"
    /\ UNCHANGED <<env, requests, repo_format, all_files, asset_files, hash_files,
                   component_dirs, valid_components, skipped_snapshots, tasks,
                   summary, uc>>

-----------------------------------------------------------------------------
(* The specifications.                                                     *)

Next ==
    \/ Validate
    \/ Confirm
    \/ Lookup
    \/ Scan
    \/ ResolveOne
    \/ ResolveEnd
    \/ CreateTasks
    \/ \E i \in 1..Len(tasks) : TaskStart(i)
    \/ \E i \in 1..Len(tasks) : TaskComplete(i)
    \/ \E i \in 1..Len(tasks) : TaskRead(i)
    \/ Report
    \/ UcCall
    \/ UcComplete
    \/ UcRead

Spec == Init /\ [][Next]_vars

\* A run over a tree of NumUnits files for a repository that is not Maven:
\* upload_generic_component reads no body, so no task awaits one.
NextSched ==
    \/ Validate
    \/ Confirm
    \/ Lookup
    \/ Scan
    \/ CreateTasks
    \/ \E i \in 1..Len(tasks) : TaskStart(i)
    \/ \E i \in 1..Len(tasks) : TaskComplete(i)
    \/ Report

SpecSched == InitSched /\ [][NextSched]_vars

\* The calls of parse_pom_file and parse_maven_path.
NextReaders ==
    \/ CallParsePom
    \/ CallParseMavenPath

SpecReaders == InitReaders /\ [][NextReaders]_vars

\* A run of the pipeline for a Maven repository.
NextMaven ==
    \/ Validate
    \/ Confirm
    \/ Lookup
    \/ Scan
    \/ ResolveOne
    \/ ResolveEnd
    \/ CreateTasks
    \/ \E i \in 1..Len(tasks) : TaskStart(i)
    \/ \E i \in 1..Len(tasks) : TaskComplete(i)
    \/ \E i \in 1..Len(tasks) : TaskRead(i)
    \/ Report

SpecFallback == InitFallback /\ [][NextMaven]_vars

-----------------------------------------------------------------------------
(* The properties.                                                         *)

Tasks == 1..Len(tasks)
InFlight == {i \in Tasks : tasks[i].st \in {"posting", "reading"}}
Failed(i) == tasks[i].result \in {"False", "Exception"}

\* The name ends, case-insensitively, in a checksum or signature suffix.
SignatureName(name) ==
    LET folded == Lower(name) IN \E suf \in HashSuffixes : EndsWith(folded, suf)

\* The (classifier, extension) pair member i of a component request carries.
MemberPair(form, i) ==
    LET ext == {k \in 1..Len(form) : form[k].key = "extension" /\ form[k].i = i}
        cls == {k \in 1..Len(form) : form[k].key = "classifier" /\ form[k].i = i}
    IN  <<IF cls = {} THEN <<>> ELSE form[CHOOSE k \in cls : TRUE].text,
          form[CHOOSE k \in ext : TRUE].text>>
Members(form) == {form[k].i : k \in {j \in 1..Len(form) : form[j].key = "asset"}}

\* What the path alone says about a file that keeps the Maven layout.
PathGroup(f) == Join(SubSeq(f, 1, Len(f) - 3))
PathArtifact(f) == f[Len(f) - 2]
PathVersion(f) == f[Len(f) - 1]

\* C1: at any moment of a run of upload_repository_components, at most 5
\* (the permit limit) upload submissions have started and not completed.
C1_AtMostFiveInFlight == Cardinality(InFlight) <= 5

\* C2: the upload summary is printed only when every task created in the
\* run has reached a terminal outcome: none is in flight or still to start.
C2_SummaryAfterAllTerminal ==
    summary # <<>> => \A i \in Tasks : tasks[i].st = "done" /\ tasks[i].result # "pending"

C2_Witness ==
    /\ summary # <<>>
    /\ Len(tasks) >= 2
    /\ \E i \in Tasks : tasks[i].reply.kind = "response"

\* C3: a run that passed setup and has ended has reported the final summary
\* with the succeeded/failed, the asset/task and the skipped counts, for the
\* Maven and the generic format, whether or not a unit was valid.
C3_SummaryAlwaysReported ==
    (entry = "upload_repository_components" /\ pc \in {"no_valid", "NameError", "done"})
        => Len(summary) = 3

\* C4: a file whose name ends in .md5, .sha1, .sha256, .sha512 or .asc, in
\* any case, is never an upload unit and is never a file field of a request,
\* for either format and through either entry point.
C4_SignatureNeverUploaded ==
    /\ \A i \in Tasks :
          /\ \A f \in FormFiles(tasks[i].form) : ~SignatureName(Name(f))
          /\ tasks[i].kind = "generic" => ~SignatureName(Name(tasks[i].assets[1]))
    /\ \A f \in FormFiles(uc.form) : ~SignatureName(Name(f))

C4_Witness ==
    /\ fileJarSha1 \in Range(files)
    /\ \E i \in Tasks : /\ tasks[i].kind = "maven"
                        /\ tasks[i].reply.kind = "response"
                        /\ FormFiles(tasks[i].form) = {fileJar}

\* C5: for the Maven format no upload request holds a file whose enclosing
\* directory name ends in -SNAPSHOT, whatever the metadata file declares.
C5_SnapshotDirNeverUploaded ==
    \A i \in Tasks :
        tasks[i].kind = "maven" =>
            \A f \in FormFiles(tasks[i].form) :
                Len(f) >= 2 => ~EndsWith(f[Len(f) - 1], SnapshotSuffix)

\* C6: no Maven request is submitted whose version field ends in -SNAPSHOT,
\* by the component-group pipeline or by upload_component.
C6_NoSnapshotVersionSubmitted ==
    /\ \A i \in Tasks :
          (tasks[i].kind = "maven" /\ tasks[i].form # <<>>)
              => ~EndsWith(FormText(tasks[i].form, "version"), SnapshotSuffix)
    /\ (uc.form # <<>> /\ IsMaven(uc.format))
          => ~EndsWith(FormText(uc.form, "version"), SnapshotSuffix)

\* C7: within one Maven component request no two members carry the same
\* (classifier, extension) pair.
C7_NoDuplicatePair ==
    \A i \in Tasks :
        tasks[i].kind = "maven" =>
            \A m, n \in Members(tasks[i].form) :
                m # n => MemberPair(tasks[i].form, m) # MemberPair(tasks[i].form, n)

\* C8: every Maven component that becomes a task, and every Maven request
\* built, has a non-empty group, artifact and version; and a directory is in
\* a task with all of its asset files or with none of them.
C8_CoordinateComplete ==
    /\ \A i \in Tasks :
          tasks[i].kind = "maven" =>
              /\ \A x \in {tasks[i].g, tasks[i].a, tasks[i].v} : x # None /\ x # <<>>
              /\ tasks[i].form # <<>> =>
                    \A key \in {"groupId", "artifactId", "version"} :
                        LET x == FormText(tasks[i].form, key)
                        IN  x # None /\ x # <<>>
              /\ Range(tasks[i].assets) =
                    {f \in Range(asset_files) : Parent(f) = Parent(tasks[i].assets[1])}
    /\ (uc.form # <<>> /\ IsMaven(uc.format)) =>
          \A key \in {"groupId", "artifactId", "version"} :
              LET x == FormText(uc.form, key) IN x # None /\ x # <<>>

C8_Witness ==
    /\ pomDoc = docNoGroup
    /\ \E i \in Tasks : /\ tasks[i].kind = "maven"
                        /\ tasks[i].st = "posting"
                        /\ FormText(tasks[i].form, "groupId") = org

\* The resolved field is the metadata's when the metadata gave one, and the
\* path's otherwise.
Kept(meta, resolved, fromPath) ==
    IF meta # None /\ meta # <<>> THEN resolved = meta ELSE resolved = fromPath

\* C9: a group, artifact or version the metadata file supplied is the one of
\* the resolved coordinate; a field differs from the metadata only when the
\* metadata supplied none, and then it is the value the path gives.
C9_MetadataPrecedence ==
    /\ \A i \in Tasks :
          tasks[i].kind = "maven" =>
              LET pom == IF HasPom(tasks[i].assets) THEN parse_pom_file(pomDoc) ELSE NoPom
                  f == tasks[i].assets[1]
              IN  /\ Kept(pom.g, tasks[i].g, PathGroup(f))
                  /\ Kept(pom.a, tasks[i].a, PathArtifact(f))
                  /\ Kept(pom.v, tasks[i].v, PathVersion(f))
    /\ (uc.form # <<>> /\ IsMaven(uc.format)) =>
          LET pom == ComponentPom(uc.file, files, pomDoc)
          IN  /\ Kept(pom.g, FormText(uc.form, "groupId"), PathGroup(uc.file))
              /\ Kept(pom.a, FormText(uc.form, "artifactId"), PathArtifact(uc.file))
              /\ Kept(pom.v, FormText(uc.form, "version"), PathVersion(uc.file))

C9_Witness ==
    /\ pomDoc = docChild
    /\ \E i \in Tasks : /\ tasks[i].kind = "maven"
                        /\ tasks[i].g = par
                        /\ tasks[i].v = v10
                        /\ PathGroup(tasks[i].assets[1]) = org

\* A step changes at most one task.
StepIsLocal ==
    Len(tasks') = Len(tasks) =>
        \A i, j \in Tasks : (i # j /\ tasks'[i] # tasks[i]) => tasks'[j] = tasks[j]

\* After a failure the run is not aborted, it ends only when every task is
\* done, a task can always proceed while one is not done, and the outcome of
\* a task is the one of its own POST.
RunGoesOn ==
    /\ (\E i \in Tasks : Failed(i)) => pc \in {"gather", "done", "NameError"}
    /\ pc \in {"done", "NameError"} => \A j \in Tasks : tasks[j].st = "done"
    /\ (pc = "gather" /\ \E j \in Tasks : tasks[j].st # "done")
          => \E i \in Tasks : CanStart(i) \/ CanComplete(i) \/ CanRead(i)
    /\ \A j \in Tasks :
          tasks[j].reply # NoReply =>
              IF tasks[j].st = "reading" THEN tasks[j].result = "pending"
              ELSE tasks[j].result \in {Outcome(tasks[j].reply), "Exception"}

\* C10: a failed submission leaves every other task as it is, the run goes
\* on until every created task has been submitted and has its own outcome,
\* and each outcome is the one of the task's own POST.
C10_FailureIsIsolated == []RunGoesOn /\ [][StepIsLocal]_vars

C10_Witness ==
    /\ pc \in {"done", "NameError"}
    /\ \E i, j \in Tasks : /\ i < j
                           /\ tasks[i].result = "Exception"
                           /\ tasks[j].reply.kind = "response"
                           /\ tasks[j].reply.status = 204
                           /\ tasks[j].result = "True"

\* The directories of the tree that hold an asset file, and the ones whose
\* resolution gives a release coordinate.
AssetDirs == {Parent(f) : f \in {g \in Range(files) : ~SignatureName(Name(g))}}
ValidDirs ==
    {d \in AssetDirs : ResolveDir(InDir(FilterAssets(files), d), pomDoc).outcome = "valid"}

\* C11: for the Maven format an error of the path parser for one directory
\* never aborts the run, and once the tasks are created every directory
\* that resolves to a release coordinate has its task.
C11_PathErrorDiscardsOnlyItsUnit ==
    /\ pc # "re.error"
    /\ (pc \in {"gather", "done"} /\ IsMaven(repo_format)) =>
          \A d \in ValidDirs : \E i \in Tasks : Parent(tasks[i].assets[1]) = d

\* The run was aborted during setup.
Aborted == pc \in {"Exit1", "RuntimeError"}
FormatUnknown ==
    /\ entry = "upload_repository_components"
    /\ get_repo_type(server, "releases") \in {None, <<>>}

\* C12: when the scan root is missing or no directory, or the format of the
\* repository cannot be determined (repository not listed, listing not 200,
\* descriptor without format), the run aborts: it never scans, no task is
\* created, no POST is issued, and nothing happens after the abort.
C12_AbortBeforeAnyUpload ==
    /\ [](Aborted => (tasks = <<>> /\ all_files = <<>> /\ summary = <<>>))
    /\ [](FormatUnknown =>
             (tasks = <<>> /\ pc \in {"start", "confirm", "lookup", "Exit0", "Exit1",
                                     "RuntimeError"}))
    /\ [][~Aborted]_vars

C12_Witness ==
    /\ pc = "RuntimeError"
    /\ server.status = 200
    /\ get_repo_type(server, "releases") = None
    /\ fileJar \in Range(files)

\* The POST of the unit returned HTTP 204.
Got204(reply) == reply.kind = "response" /\ reply.status = 204

\* C13: a unit whose POST has ended succeeded exactly when the POST
\* returned HTTP 204; every other status, whatever the body, and a transport
\* failure make it failed (it returns False or raises, and the summary
\* counts it as failed); and the success count of the summary is the number
\* of units whose POST returned 204.
C13_SuccessIsExactly204 ==
    /\ \A i \in Tasks :
          (tasks[i].reply # NoReply /\ tasks[i].st = "done") =>
              IF Got204(tasks[i].reply) THEN tasks[i].result = "True" ELSE Failed(i)
    /\ (uc.reply # NoReply /\ pc = "returned") =>
          IF Got204(uc.reply) THEN uc.result = "True"
          ELSE uc.result \in {"False", "Exception"}
    /\ summary # <<>> =>
          /\ summary[1].first = Cardinality({i \in Tasks : Got204(tasks[i].reply)})
          /\ summary[1].second = Cardinality({i \in Tasks : ~Got204(tasks[i].reply)})

C13_Witness ==
    /\ summary # <<>>
    /\ summary[1].first = 1
    /\ \E i, j \in Tasks : /\ Got204(tasks[i].reply)
                           /\ tasks[j].reply.status = 200
                           /\ tasks[j].result = "False"

\* A task that is done is never changed again.
DoneIsTerminal ==
    \A i \in Tasks :
        tasks[i].st = "done" => (Len(tasks') = Len(tasks) /\ tasks'[i] = tasks[i])

\* The outcome of every task is recorded once, in one tally of the summary.
TalliedOnce ==
    summary # <<>> =>
        /\ summary[1].first + summary[1].second = Len(tasks)
        /\ summary[2].second = Len(tasks)
        /\ summary[1].first = Cardinality({i \in Tasks : tasks[i].result = "True"})
        /\ summary[1].second = Cardinality({i \in Tasks : tasks[i].result # "True"})
        /\ \A i \in Tasks : tasks[i].result # "pending"

\* No task holds a file of a directory the resolution skipped.
SkippedStaysSkipped ==
    IsMaven(repo_format) =>
        \A i \in Tasks : \A f \in Range(tasks[i].assets) \cup FormFiles(tasks[i].form) :
            Parent(f) \in ValidDirs

\* C14: every created task is counted in exactly one of the succeeded and
\* failed tallies of the summary, so the two add up to the number of tasks;
\* a task that is done never changes again; and a directory skipped during
\* resolution is in no task and in no request.
C14_OutcomeRecordedOnce ==
    /\ []TalliedOnce
    /\ []SkippedStaysSkipped
    /\ [][DoneIsTerminal]_vars

C14_Witness ==
    /\ summary # <<>>
    /\ IsMaven(repo_format)
    /\ fileSnapJar \in Range(files)
    /\ Len(tasks) = 1
    /\ tasks[1].result = "Exception"
    /\ summary[1].second = 1

\* C15: when the submission of a unit has ended, by a 204, by another
\* status, by a transport error or by an exception raised while the request
\* was built, no file opened for the unit is still open.
C15_HandlesClosedOnEveryExit ==
    /\ \A i \in Tasks : tasks[i].st = "done" => tasks[i].handles = {}
    /\ pc = "returned" => ~uc.open

\* The tasks of a run exist.
TasksCreated == pc \in {"gather", "done", "NameError"}

\* C16: for a format that is not Maven, once the tasks are created, every
\* file of the tree that is no signature file, a file of a -SNAPSHOT
\* directory included, is the single file of exactly one task, a task has no
\* coordinate, and there are as many tasks as asset files.
C16_GenericOneUnitPerAsset ==
    (TasksCreated /\ ~IsMaven(repo_format)) =>
        /\ Len(tasks) = Len(asset_files)
        /\ Len(tasks) = Cardinality({f \in Range(files) : ~SignatureName(Name(f))})
        /\ \A f \in Range(files) :
              ~SignatureName(Name(f)) =>
                  Cardinality({i \in Tasks : tasks[i].assets = <<f>>}) = 1
        /\ \A i \in Tasks :
              /\ tasks[i].kind = "generic"
              /\ Len(tasks[i].assets) = 1
              /\ tasks[i].g = None /\ tasks[i].a = None /\ tasks[i].v = None
              /\ tasks[i].form # <<>> => tasks[i].form = <<FileField("asset", 0, tasks[i].assets[1])>>

C16_Witness ==
    /\ ~IsMaven(repo_format)
    /\ Len(tasks) = 2
    /\ \E i \in Tasks : /\ tasks[i].assets = <<fileSnapJar>>
                        /\ tasks[i].st = "posting"
                        /\ FormFiles(tasks[i].form) = {fileSnapJar}

\* The relative path keeps the Maven convention
\* <groupPath>/<artifactId>/<version>/<artifactId>-<version>[-<classifier>].<extension>.
Conventional(f) ==
    /\ Len(f) >= 4
    /\ LET stem == f[Len(f) - 2] \o <<"-">> \o f[Len(f) - 1]
           name == f[Len(f)]
           rest == From(name, Len(stem) + 1)
       IN  /\ StartsWith(name, stem)
           /\ Len(rest) >= 2
           /\ \/ rest[1] = "." 
              \/ rest[1] = "-" /\ \E p \in 3..(Len(rest) - 1) : rest[p] = "."

\* C17: for the Maven format every file in an upload request, of the
\* pipeline or of upload_component, has a relative path that keeps the
\* convention; a file that departs from it is skipped.
C17_OnlyConventionalPathsUploaded ==
    /\ \A i \in Tasks :
          tasks[i].kind = "maven" => \A f \in FormFiles(tasks[i].form) : Conventional(f)
    /\ IsMaven(uc.format) => \A f \in FormFiles(uc.form) : Conventional(f)

\* The text an element declares, without the blanks around it; an element
\* that is absent, empty or blank declares nothing.
Declares(elem) == elem # None /\ Strip(elem) # <<>>
Declared(elem) == Strip(elem)

\* The field a call of parse_pom_file returned is the own element's text if
\* the document declares it, and the text of the parent's element if the
\* document lacks it and has a parent that declares it.
OwnOrInherited(field, own, parentElem) ==
    /\ Declares(own) => field = Declared(own)
    /\ (~Declares(own) /\ pomDoc.hasParent /\ Declares(parentElem))
          => field = Declared(parentElem)

\* C18: parse_pom_file on a well-formed document returns, for groupId and
\* for version, the document's own value when it declares one and the
\* parent's value when it lacks one and a parent declares it; the artifactId
\* is the document's own, whatever the parent declares.
C18_ParentFillsMissingFields ==
    (entry = "parse_pom_file" /\ pc = "returned" /\ pomDoc.wellformed) =>
        /\ OwnOrInherited(ret.g, pomDoc.groupId, pomDoc.parentGroupId)
        /\ OwnOrInherited(ret.v, pomDoc.version, pomDoc.parentVersion)
        /\ Declares(pomDoc.artifactId) => ret.a = Declared(pomDoc.artifactId)
        /\ ~Declares(pomDoc.artifactId) => ret.a \in {None, <<>>}

C18_Witness ==
    /\ entry = "parse_pom_file"
    /\ pc = "returned"
    /\ pomDoc.groupId = None
    /\ pomDoc.version = v10
    /\ pomDoc.artifactId = None
    /\ pomDoc.hasParent
    /\ pomDoc.parentArtifactId = par
    /\ pomDoc.parentVersion = v10snap
    /\ ret.g = par
    /\ ret.v = v10
    /\ ret.a = None

\* C19: parse_maven_path, for a path that keeps the convention and whose
\* version directory starts with a digit, returns the second-to-last
\* segment as version, the third-to-last as artifact and the leading
\* segments joined with '.' as group, and raises nothing.
C19_ConventionalPathParses ==
    (entry = "parse_maven_path" /\ pc = "returned") =>
        LET f == files[1]
        IN  (Conventional(f) /\ f[Len(f) - 1][1] \in Digits) =>
                /\ ret.kind = "ok"
                /\ ret.v = f[Len(f) - 1]
                /\ ret.a = f[Len(f) - 2]
                /\ ret.g = Join(SubSeq(f, 1, Len(f) - 3))

\* The positions in a request of the fields of member i with the given key.
FieldsOf(form, key, i) == {k \in 1..Len(form) : form[k].key = key /\ form[k].i = i}

\* The request built for the coordinate (a, v) from the member list: the
\* members are numbered 1..n in the order of the list, the fields follow in
\* ascending order of the member index, and member i has one extension
\* field, then a classifier field exactly when its classifier is not empty,
\* then its file.
WellNumbered(form, a, v, members) ==
    /\ Members(form) = 1..Len(members)
    /\ \A k, l \in 1..Len(form) : k < l => form[k].i <= form[l].i
    /\ \A i \in 1..Len(members) :
          LET d == DeriveAsset(a, v, Name(members[i]))
              ext == FieldsOf(form, "extension", i)
              cls == FieldsOf(form, "classifier", i)
              body == FieldsOf(form, "asset", i)
          IN  /\ Cardinality(ext) = 1 /\ Cardinality(body) = 1
              /\ \A k \in body : form[k].file = members[i]
              /\ \A k \in ext : form[k].text = d.extension /\ \A l \in body : k < l
              /\ Cardinality(cls) = IF d.classifier # <<>> THEN 1 ELSE 0
              /\ \A k \in cls : /\ form[k].text = d.classifier
                                 /\ \A l \in body : k < l
                                 /\ \A m \in ext : m < k

\* C20: in every Maven component request the member fields carry the
\* indices 1..n in ascending order, in the order of the member list; member
\* i has its extension and its file, and a classifier field exactly when
\* its derived classifier is not empty.
C20_MemberFieldsNumbered ==
    /\ \A i \in Tasks :
          (tasks[i].kind = "maven" /\ tasks[i].form # <<>>) =>
              WellNumbered(tasks[i].form, tasks[i].a, tasks[i].v,
                           InDir(asset_files, Parent(tasks[i].assets[1])))
    /\ (IsMaven(uc.format) /\ uc.form # <<>>) =>
          WellNumbered(uc.form, FormText(uc.form, "artifactId"),
                       FormText(uc.form, "version"), <<uc.file>>)

C20_Witness ==
    \E i \in Tasks :
        /\ tasks[i].kind = "maven"
        /\ tasks[i].st = "posting"
        /\ tasks[i].assets = <<fileJar, fileSources>>
        /\ FieldsOf(tasks[i].form, "classifier", 1) = {}
        /\ \E k \in FieldsOf(tasks[i].form, "classifier", 2) :
              tasks[i].form[k].text = <<"s","o","u","r","c","e","s">>

\* The resolution of the run is over.
Resolved == pc \in {"no_valid", "create", "gather", "done"}

\* The directory holds a .pom file, it is a release directory, and every
\* asset file of it keeps the convention.
ConformingWithPom(d) ==
    LET inDir == {f \in Range(files) : Parent(f) = d /\ ~SignatureName(Name(f))}
    IN  /\ \E f \in inDir : EndsWith(Lower(Name(f)), PomSuffix)
        /\ \A f \in inDir : Conventional(f)
        /\ ~EndsWith(d[Len(d)], SnapshotSuffix)

\* C21: a metadata document that cannot be parsed does not fail the run;
\* parse_pom_file returns no value for the three fields, and a directory
\* with such a document and a conforming path is a valid component with the
\* group, artifact and version its path gives.
C21_MalformedPomFallsBackToPath ==
    (pomDoc = docMalformed /\ IsMaven(repo_format)) =>
        /\ parse_pom_file(pomDoc) = NoPom
        /\ pc \notin {"re.error", "RuntimeError", "Exit1"}
        /\ Resolved =>
              \A d \in AssetDirs :
                  ConformingWithPom(d) =>
                      \E k \in 1..Len(valid_components) :
                          /\ Parent(valid_components[k].assets[1]) = d
                          /\ valid_components[k].g = Join(SubSeq(d, 1, Len(d) - 2))
                          /\ valid_components[k].a = d[Len(d) - 1]
                          /\ valid_components[k].v = d[Len(d)]

\* The directory of a task, and the asset files of the tree in a directory.
TaskDir(i) == Parent(tasks[i].assets[1])
AssetsOf(d) == {f \in Range(files) : Parent(f) = d /\ ~SignatureName(Name(f))}

\* C22: for the Maven format the tasks of a run are one per valid
\* directory, the members of a task are exactly the asset files of its
\* directory, each once, and so no file is in more than one request.
C22_OneRequestPerDirectory ==
    (IsMaven(repo_format) /\ tasks # <<>>) =>
        /\ Len(tasks) = Len(valid_components)
        /\ \A i, j \in Tasks : i # j => TaskDir(i) # TaskDir(j)
        /\ \A i \in Tasks :
              /\ Range(tasks[i].assets) = AssetsOf(TaskDir(i))
              /\ Len(tasks[i].assets) = Cardinality(AssetsOf(TaskDir(i)))
              /\ tasks[i].form # <<>> =>
                    /\ FormFiles(tasks[i].form) = AssetsOf(TaskDir(i))
                    /\ Cardinality(Members(tasks[i].form)) = Cardinality(AssetsOf(TaskDir(i)))
        /\ \A f \in Range(files) :
              Cardinality({i \in Tasks : f \in FormFiles(tasks[i].form)}) <= 1

C22_Witness ==
    /\ IsMaven(repo_format)
    /\ Len(tasks) = 2
    /\ tasks[1].st = "posting"
    /\ tasks[2].st = "posting"
    /\ FormFiles(tasks[1].form) \cap FormFiles(tasks[2].form) = {}

\* The steps of a run in their order: validation, confirmation, format
\* lookup, scan and resolution, creation of the tasks, gather, summary.
RunOrder ==
    { <<"start", "confirm">>, <<"start", "Exit1">>,
      <<"confirm", "lookup">>, <<"confirm", "Exit0">>,
      <<"lookup", "scan">>, <<"lookup", "RuntimeError">>,
      <<"scan", "resolve">>, <<"scan", "create">>,
      <<"resolve", "re.error">>, <<"resolve", "no_valid">>, <<"resolve", "create">>,
      <<"create", "gather">>,
      <<"gather", "done">>, <<"gather", "NameError">> }

InOrder ==
    /\ pc' # pc => <<pc, pc'>> \in RunOrder
    /\ requests' # requests =>
          \/ pc = "lookup" /\ requests = <<>> /\ requests' = <<"GET">>
          \/ pc = "gather" /\ requests' = Append(requests, "POST")
    /\ valid_components' # valid_components => pc = "resolve"
    /\ tasks = <<>> /\ tasks' # <<>> => pc = "create"

\* No request before the confirmation, none at all after a declined one,
\* one lookup at most, and it is the first request.
RequestsFollowConfirmation ==
    /\ pc \in {"start", "confirm", "Exit0", "Exit1"} => requests = <<>>
    /\ requests # <<>> =>
          /\ requests[1] = "GET"
          /\ \A k \in 2..Len(requests) : requests[k] = "POST"
    /\ (\E k \in 1..Len(requests) : requests[k] = "POST") =>
          (repo_format # None /\ repo_format # <<>>)

\* C23: a run validates the scan root, then asks for confirmation, then
\* looks the format up once, then resolves, then creates the tasks; it sends
\* no request before the confirmation and none after a declined one, and no
\* POST before the lookup has given the format.
C23_FixedOrderOfOperations ==
    /\ [](entry = "upload_repository_components" => RequestsFollowConfirmation)
    /\ [][entry = "upload_repository_components" => InOrder]_vars

C23_Witness ==
    /\ entry = "upload_repository_components"
    /\ pc = "done"
    /\ requests = <<"GET", "POST", "POST">>
    /\ Len(valid_components) = 2

\* The counters of a classification of the listing fs for the format fmt:
\* total files, signature files, asset files, snapshot components skipped
\* and upload tasks.
Counters(fs, fmt, doc) ==
    LET A == FilterAssets(fs)
        dirs == {Parent(f) : f \in Range(A)}
        outcome(d) == ResolveDir(InDir(A, d), doc).outcome
    IN  [total |-> Len(fs),
         signatures |-> Len(fs) - Len(A),
         assets |-> Len(A),
         snapshots |-> IF IsMaven(fmt)
                       THEN Cardinality({d \in dirs : outcome(d) = "snapshot"}) ELSE 0,
         tasks |-> IF IsMaven(fmt)
                   THEN Cardinality({d \in dirs : outcome(d) = "valid"}) ELSE Len(A)]

\* The counters the run has arrived at when its resolution is over.
RunCounters ==
    [total |-> Len(all_files),
     signatures |-> Cardinality(hash_files),
     assets |-> Len(asset_files),
     snapshots |-> Len(skipped_snapshots.items),
     tasks |-> IF IsMaven(repo_format) THEN Len(valid_components) ELSE Len(asset_files)]

\* C24: the counters of a run (total files, signature files, asset files,
\* snapshot components skipped, upload tasks) are those of a classification
\* of the same tree for the same format in any other order of its files.
C24_CountersIndependentOfOrder ==
    (entry = "upload_repository_components" /\ Resolved) =>
        \A other \in Orders(Range(files)) :
            Counters(other, repo_format, pomDoc) = RunCounters

====
